---------------------------- MODULE Spec2Model ----------------------------
(***************************************************************************)
(* Model of the notebook Untitled.ipynb: least-squares selection of        *)
(* "ideal" functions for training data, mapping of test data to the        *)
(* selected functions, persistence of the mapped table and its rendering.  *)
(*                                                                         *)
(* Reals are modelled by integers.  A table is kept in a store (an SQLite  *)
(* file) under a name.  The catalog table 'ideal_functions' is a sequence  *)
(* of columns, the first of which is the column 'x'; a training or test    *)
(* table is a sequence of rows.  Every cell of a table holds a value       *)
(* (no missing cells), so Series.interpolate() leaves the columns as they  *)
(* are.  A lambda returned by get_ideal_function(index) is the 1-tuple     *)
(* <<index>> of the column position it closes over; None, NaN and          *)
(* float('inf') are the empty tuple.                                       *)
(***************************************************************************)
EXTENDS Integers, Sequences, FiniteSets, TLC

VARIABLES
    pc,                     \* position of the pipeline script
    err,                    \* the exception that ended the run, "none" if none
    csv_files,              \* TrainingData.csv_files
    db,                     \* engine |-> (table name |-> table)
    num_functions,          \* argument of select_ideal_functions
    i,                      \* outer loop index of select_ideal_functions
    ideal_functions,        \* the list select_ideal_functions builds
    scored,                 \* deviations computed in the last round, in scan order
    chosen_ideal_functions, \* the list handed to map_to_ideal_functions
    df_test,                \* the frame map_to_ideal_functions fills in
    row,                    \* number of rows iterrows() has delivered
    min_deviation_idx,      \* local of map_to_ideal_functions, last value
    mapped_data,            \* the frame map_to_ideal_functions returned
    writes,                 \* number of to_sql('mapped_data') calls made
    chart                   \* the whisker source visualize_data built

vars == <<pc, err, csv_files, db, num_functions, i, ideal_functions, scored,
          chosen_ideal_functions, df_test, row, min_deviation_idx,
          mapped_data, writes, chart>>

-----------------------------------------------------------------------------
(* Bounds of the model *)

MaxY == 1       \* training lines y = s*x for s in 0..MaxY; test y in 0..2*MaxY
MaxK == 2       \* num_functions ranges over 0..MaxK, and over ScanRange
MaxSel == 2     \* longest list handed to map_to_ideal_functions on its own

(* Program constants *)

ScanRange == 50 \* range(50) of the inner loop of select_ideal_functions

TrainingEngine == "training_data.db"
\* the catalog saved to the store of the test data
IdealEngineOther == "test_data.db"
IdealEngine == "training_data.db"
TestEngine == "test_data.db"
Engines == {"training_data.db", "test_data.db"}

TrainingTable(n) == "training_" \o ToString(n)
IdealTable == "ideal_functions"
TestTable == "test_data"
MappedTable == "mapped_data"

LambdaName(f) == "<lambda>"

None == <<>>
Ok(v) == [err |-> "none", v |-> v]
Fail(e) == [err |-> e, v |-> 0]
Abs(n) == IF n < 0 THEN -n ELSE n
MinOf(S) == CHOOSE m \in S : \A n \in S : m <= n

-----------------------------------------------------------------------------
(* Inputs: the contents of the CSV files *)

CatalogX == <<1, 2>>
Line(s) == [r \in 1..Len(CatalogX) |-> s * CatalogX[r]]

\* x, y1 = Line(a), y2..y(n-2) = Line(fill), y(n-1) = Line(b)
Catalog(n, a, fill, b) ==
    [c \in 1..n |-> IF c = 1 THEN CatalogX
                    ELSE IF c = 2 THEN Line(a)
                    ELSE IF c = n THEN Line(b)
                    ELSE Line(fill)]

CatalogWidths == {3, ScanRange, ScanRange + 1}
Slopes == {0, 1, 2}
Catalogs == {Catalog(n, a, 2, 0) : n \in CatalogWidths, a \in Slopes}

TrainRow(x, y) == [x |-> x, y1 |-> y]
OnLine(y) == <<TrainRow(1, y), TrainRow(2, 2 * y)>>
TrainTables ==
    {OnLine(y) : y \in 0..MaxY}
    \cup {<<TrainRow(3, 1), TrainRow(2, 2)>>,    \* first row off the catalog's x
          <<TrainRow(3, 1), TrainRow(4, 2)>>,    \* no row on the catalog's x
          <<TrainRow(1, 1)>>}                    \* fewer rows than the catalog

\* the contents of the files of csv_files, one table per file
TrainFileSets ==
    {<<t>> : t \in TrainTables} \cup {<<OnLine(1), OnLine(MaxY)>>}

TestRow(x, y) == [x |-> x, y |-> y]
TestTables ==
    {<<>>, <<TestRow(3, 0)>>, <<TestRow(1, 0), TestRow(2, 2 * MaxY)>>}

CsvFileLists == {<<"train.csv">>, <<"train.csv", "train2.csv">>}
NumFunctionsArgs == (0..MaxK) \cup {ScanRange}

-----------------------------------------------------------------------------
(* TableStore: DataFrame.to_sql(if_exists='replace') and pd.read_sql_table *)

HasTable(engine, name) == name \in DOMAIN db[engine]
ReadTable(engine, name) == db[engine][name]
ToSql(store, engine, name, table) ==
    [store EXCEPT ![engine] = (name :> table) @@ store[engine]]

-----------------------------------------------------------------------------
(* TrainingData *)

\* get_ideal_function: the table is read and the column taken by position
get_ideal_function(index) ==
    IF ~HasTable(TrainingEngine, IdealTable) THEN Fail("TableNotFound")
    ELSE IF index >= Len(ReadTable(TrainingEngine, IdealTable)) THEN Fail("IndexError")
    ELSE Ok(<<index>>)

IdealColumn(f) == ReadTable(TrainingEngine, IdealTable)[f[1] + 1]
IdealX == ReadTable(TrainingEngine, IdealTable)[1]

\* the lambda applied to a scalar x: the value in the first row whose x equals x
ApplyScalar(f, x) ==
    LET hits == {p \in 1..Len(IdealX) : IdealX[p] = x}
    IN  IF hits = {} THEN Fail("IndexError")
        ELSE Ok(IdealColumn(f)[MinOf(hits)])

\* the lambda applied to a column xs: the two columns are compared row by row,
\* and the value in the first row where they agree is returned (a scalar)
ApplySeries(f, xs) ==
    IF Len(xs) # Len(IdealX) THEN Fail("ValueError")
    ELSE LET hits == {p \in 1..Len(IdealX) : IdealX[p] = xs[p]}
         IN  IF hits = {} THEN Fail("IndexError")
             ELSE Ok(IdealColumn(f)[MinOf(hits)])

RECURSIVE SumSq(_, _)
SumSq(ys, v) ==
    IF ys = <<>> THEN 0
    ELSE (Head(ys) - v) * (Head(ys) - v) + SumSq(Tail(ys), v)

ColumnX(df) == [r \in 1..Len(df) |-> df[r].x]
ColumnY1(df) == [r \in 1..Len(df) |-> df[r].y1]

\* the loop of calculate_deviation from file n on, with the running total
RECURSIVE DeviationLoop(_, _, _)
DeviationLoop(ideal_func, n, deviation) ==
    IF n > Len(csv_files) THEN Ok(deviation)
    ELSE IF ~HasTable(TrainingEngine, TrainingTable(n)) THEN Fail("TableNotFound")
    ELSE LET df == ReadTable(TrainingEngine, TrainingTable(n))
             fx == ApplySeries(ideal_func, ColumnX(df))
         IN  IF fx.err # "none" THEN fx
             ELSE DeviationLoop(ideal_func, n + 1, deviation + SumSq(ColumnY1(df), fx.v))

calculate_deviation(ideal_func) == DeviationLoop(ideal_func, 1, 0)

\* deviation < min_deviation, with float('inf') the empty tuple
Less(deviation, min_deviation) ==
    min_deviation = None \/ deviation < min_deviation[1]

\* the locals of one round of select_ideal_functions; scored are the deviations
\* computed so far in the round, in scan order
ScanStart == [min_deviation |-> None, selected_func |-> None, scored |-> <<>>]

\* the inner loop of select_ideal_functions from j on
RECURSIVE ScanLoop(_, _)
ScanLoop(j, loc) ==
    IF j = ScanRange THEN [err |-> "none", v |-> loc.selected_func, scored |-> loc.scored]
    ELSE LET g == get_ideal_function(j)
         IN  IF g.err # "none" THEN [err |-> g.err, v |-> None, scored |-> loc.scored]
             ELSE LET d == calculate_deviation(g.v)
                  IN  IF d.err # "none"
                      THEN [err |-> d.err, v |-> None, scored |-> loc.scored]
                      ELSE IF Less(d.v, loc.min_deviation)
                           THEN ScanLoop(j + 1, [min_deviation |-> <<d.v>>,
                                                 selected_func |-> g.v,
                                                 scored |-> Append(loc.scored, d.v)])
                           ELSE ScanLoop(j + 1, [loc EXCEPT !.scored = Append(@, d.v)])

-----------------------------------------------------------------------------
(* The pipeline script and the methods it calls *)

Init ==
    /\ pc = "load_training"
    /\ err = "none"
    /\ csv_files \in CsvFileLists
    /\ db = [e \in Engines |-> <<>>]
    /\ num_functions = 0
    /\ i = 0
    /\ ideal_functions = <<>>
    /\ scored = <<>>
    /\ chosen_ideal_functions = <<>>
    /\ df_test = <<>>
    /\ row = 0
    /\ min_deviation_idx = 0
    /\ mapped_data = None
    /\ writes = 0
    /\ chart = None

\* TrainingData.load_data: every file is read and saved as training_<n>
LoadTraining ==
    /\ pc = "load_training"
    /\ \E content \in {c \in TrainFileSets : Len(c) = Len(csv_files)} :
         db' = [db EXCEPT ![TrainingEngine] =
                   [name \in {TrainingTable(n) : n \in 1..Len(csv_files)} |->
                       content[CHOOSE n \in 1..Len(csv_files) : TrainingTable(n) = name]]
                   @@ db[TrainingEngine]]
    /\ pc' = "load_ideal"
    /\ UNCHANGED <<err, csv_files, num_functions, i, ideal_functions, scored,
                   chosen_ideal_functions, df_test, row, min_deviation_idx,
                   mapped_data, writes, chart>>

\* IdealFunctions.load_data
LoadIdeal ==
    /\ pc = "load_ideal"
    /\ \E df \in Catalogs : db' = ToSql(db, IdealEngine, IdealTable, df)
    /\ pc' = "load_test"
    /\ UNCHANGED <<err, csv_files, num_functions, i, ideal_functions, scored,
                   chosen_ideal_functions, df_test, row, min_deviation_idx,
                   mapped_data, writes, chart>>

\* TestData.load_csv
LoadTest ==
    /\ pc = "load_test"
    /\ \E df \in TestTables : db' = ToSql(db, TestEngine, TestTable, df)
    /\ pc' = "select"
    /\ UNCHANGED <<err, csv_files, num_functions, i, ideal_functions, scored,
                   chosen_ideal_functions, df_test, row, min_deviation_idx,
                   mapped_data, writes, chart>>

\* the call of select_ideal_functions
SelectCall ==
    /\ pc = "select"
    /\ \E k \in NumFunctionsArgs : num_functions' = k
    /\ ideal_functions' = <<>>
    /\ i' = 0
    /\ pc' = "select_loop"
    /\ UNCHANGED <<err, csv_files, db, scored, chosen_ideal_functions, df_test,
                   row, min_deviation_idx, mapped_data, writes, chart>>

\* one round of the outer loop: the scan of range(50), then the append;
\* an exception ends the run where it is raised
SelectRound ==
    /\ pc = "select_loop"
    /\ err = "none"
    /\ i < num_functions
    /\ LET r == ScanLoop(0, ScanStart)
       IN  /\ scored' = r.scored
           /\ err' = r.err
           /\ IF r.err # "none"
              THEN UNCHANGED <<i, ideal_functions>>
              ELSE /\ ideal_functions' = Append(ideal_functions, r.v)
                   /\ i' = i + 1
    /\ UNCHANGED <<pc, csv_files, db, num_functions, chosen_ideal_functions, df_test,
                   row, min_deviation_idx, mapped_data, writes, chart>>

\* return ideal_functions
SelectReturn ==
    /\ pc = "select_loop"
    /\ err = "none"
    /\ i = num_functions
    /\ chosen_ideal_functions' = ideal_functions
    /\ pc' = "map"
    /\ UNCHANGED <<err, csv_files, db, num_functions, i, ideal_functions, scored,
                   df_test, row, min_deviation_idx, mapped_data, writes, chart>>

-----------------------------------------------------------------------------
(* TestData *)

\* min(deviations) without key=abs: the least element
MinByValue(deviations) == MinOf({deviations[n] : n \in 1..Len(deviations)})

\* min(deviations, key=abs): the first element of least absolute value
MinByAbs(deviations) ==
    deviations[MinOf({n \in 1..Len(deviations) :
                        \A m \in 1..Len(deviations) :
                            Abs(deviations[n]) <= Abs(deviations[m])})]

\* deviations.index(value): the position (from 0) of the first equal element
IndexIn(deviations, value) ==
    MinOf({n \in 1..Len(deviations) : deviations[n] = value}) - 1

\* the deviation recorded in the frame
Recorded(min_deviation) == <<min_deviation>>

\* the call of map_to_ideal_functions: the table is read, the two columns added
MapCall ==
    /\ pc = "map"
    /\ err = "none"
    /\ IF ~HasTable(TestEngine, TestTable)
       THEN /\ err' = "TableNotFound"
            /\ UNCHANGED <<pc, df_test, row>>
       ELSE /\ df_test' = [r \in 1..Len(ReadTable(TestEngine, TestTable)) |->
                              [x |-> ReadTable(TestEngine, TestTable)[r].x,
                               y |-> ReadTable(TestEngine, TestTable)[r].y,
                               IdealFunction |-> "",
                               Deviation |-> None]]
            /\ row' = 0
            /\ pc' = "map_loop"
            /\ UNCHANGED err
    /\ UNCHANGED <<csv_files, db, num_functions, i, ideal_functions, scored,
                   chosen_ideal_functions, min_deviation_idx, mapped_data, writes,
                   chart>>

\* one iteration of the loop over the rows of df_test
MapRow ==
    /\ pc = "map_loop"
    /\ err = "none"
    /\ row < Len(df_test)
    /\ LET cur == df_test[row + 1]
           results == [n \in 1..Len(chosen_ideal_functions) |->
                          ApplyScalar(chosen_ideal_functions[n], cur.x)]
           failed == {n \in 1..Len(chosen_ideal_functions) : results[n].err # "none"}
           deviations == [n \in 1..Len(chosen_ideal_functions) |-> cur.y - results[n].v]
       IN  IF failed # {}
           THEN /\ err' = results[MinOf(failed)].err
                /\ UNCHANGED <<df_test, row, min_deviation_idx>>
           ELSE IF deviations = <<>>
           THEN /\ err' = "ValueError"
                /\ UNCHANGED <<df_test, row, min_deviation_idx>>
           ELSE LET min_deviation == MinByAbs(deviations)
                    idx == IndexIn(deviations, min_deviation)
                IN  /\ min_deviation_idx' = idx
                    /\ df_test' = [df_test EXCEPT ![row + 1] =
                          [@ EXCEPT !.IdealFunction =
                                        LambdaName(chosen_ideal_functions[idx + 1]),
                                    !.Deviation = Recorded(min_deviation)]]
                    /\ row' = row + 1
                    /\ UNCHANGED err
    /\ UNCHANGED <<pc, csv_files, db, num_functions, i, ideal_functions, scored,
                   chosen_ideal_functions, mapped_data, writes, chart>>

\* return df_test
MapReturn ==
    /\ pc = "map_loop"
    /\ err = "none"
    /\ row = Len(df_test)
    /\ mapped_data' = <<df_test>>
    /\ pc' = "persist"
    /\ UNCHANGED <<err, csv_files, db, num_functions, i, ideal_functions, scored,
                   chosen_ideal_functions, df_test, row, min_deviation_idx, writes,
                   chart>>

\* mapped_data.to_sql('mapped_data', test_data.db_engine, if_exists='replace')
Persist ==
    /\ pc = "persist"
    /\ err = "none"
    /\ db' = ToSql(db, TestEngine, MappedTable, mapped_data[1])
    /\ writes' = writes + 1
    /\ pc' = "visualize"
    /\ UNCHANGED <<err, csv_files, num_functions, i, ideal_functions, scored,
                   chosen_ideal_functions, df_test, row, min_deviation_idx,
                   mapped_data, chart>>

\* y - Deviation and y + Deviation of a row; NaN stays NaN
Whisker(r) ==
    [base |-> r.x,
     lower |-> IF r.Deviation = None THEN None ELSE <<r.y - r.Deviation[1]>>,
     upper |-> IF r.Deviation = None THEN None ELSE <<r.y + r.Deviation[1]>>]

\* TestData.visualize_data
Visualize ==
    /\ pc = "visualize"
    /\ err = "none"
    /\ IF ~HasTable(TestEngine, MappedTable)
       THEN /\ err' = "TableNotFound"
            /\ UNCHANGED <<pc, chart>>
       ELSE /\ chart' = <<[r \in 1..Len(ReadTable(TestEngine, MappedTable)) |->
                             Whisker(ReadTable(TestEngine, MappedTable)[r])]>>
            /\ pc' = "done"
            /\ UNCHANGED err
    /\ UNCHANGED <<csv_files, db, num_functions, i, ideal_functions, scored,
                   chosen_ideal_functions, df_test, row, min_deviation_idx,
                   mapped_data, writes>>

Next ==
    \/ LoadTraining
    \/ LoadIdeal
    \/ LoadTest
    \/ SelectCall
    \/ SelectRound
    \/ SelectReturn
    \/ MapCall
    \/ MapRow
    \/ MapReturn
    \/ Persist
    \/ Visualize

Spec == Init /\ [][Next]_vars

-----------------------------------------------------------------------------
(* map_to_ideal_functions on its own: any list of lambdas that             *)
(* get_ideal_function can return, any test table                           *)

ClassifyCatalogs == {df \in Catalogs : Len(df) = 3}
ClassifyTestTables ==
    {<<>>, <<TestRow(3, 0)>>}
    \cup {<<TestRow(1, v), TestRow(2, w)>> : v \in 0..MaxY, w \in 0..(2 * MaxY)}

RECURSIVE LambdaLists(_)
LambdaLists(len) ==
    IF len = 0 THEN {<<>>}
    ELSE LambdaLists(len - 1)
         \cup {Append(l, <<index>>) : l \in {m \in LambdaLists(len - 1) : Len(m) = len - 1},
                                      index \in 0..2}

InitClassify ==
    /\ pc = "map"
    /\ err = "none"
    /\ csv_files = <<"train.csv">>
    /\ \E cat \in ClassifyCatalogs, test \in ClassifyTestTables :
         db = ToSql(ToSql([e \in Engines |-> <<>>], IdealEngine, IdealTable, cat),
                    TestEngine, TestTable, test)
    /\ chosen_ideal_functions \in LambdaLists(MaxSel)
    /\ ideal_functions = chosen_ideal_functions
    /\ num_functions = Len(chosen_ideal_functions)
    /\ i = Len(chosen_ideal_functions)
    /\ scored = <<>>
    /\ df_test = <<>>
    /\ row = 0
    /\ min_deviation_idx = 0
    /\ mapped_data = None
    /\ writes = 0
    /\ chart = None

NextClassify == MapCall \/ MapRow \/ MapReturn

SpecClassify == InitClassify /\ [][NextClassify]_vars

-----------------------------------------------------------------------------
(* What the claims speak of *)

\* the script positions after select_ideal_functions has returned
PostSelect == {"map", "map_loop", "persist", "visualize", "done"}
\* the script positions after map_to_ideal_functions has returned
PostMap == {"persist", "visualize", "done"}

\* column positions of the reference functions of the catalog: all but column x
CatalogIds == 1..(Len(ReadTable(TrainingEngine, IdealTable)) - 1)

\* (y - f(x)) of a point, f evaluated at the point's own x
RECURSIVE PointwiseTable(_, _)
PointwiseTable(f, df) ==
    IF df = <<>> THEN 0
    ELSE (Head(df).y1 - ApplyScalar(f, Head(df).x).v)
             * (Head(df).y1 - ApplyScalar(f, Head(df).x).v)
         + PointwiseTable(f, Tail(df))

RECURSIVE PointwiseFrom(_, _)
PointwiseFrom(f, n) ==
    IF n > Len(csv_files) THEN 0
    ELSE PointwiseTable(f, ReadTable(TrainingEngine, TrainingTable(n)))
         + PointwiseFrom(f, n + 1)

PointwiseScore(f) == PointwiseFrom(f, 1)

\* every training point lies on an x of the catalog
TrainingOnGrid ==
    \A n \in 1..Len(csv_files) :
        \A r \in 1..Len(ReadTable(TrainingEngine, TrainingTable(n))) :
            ApplyScalar(<<0>>, ReadTable(TrainingEngine, TrainingTable(n))[r].x).err = "none"

\* the signed deviation of a row of df_test from the n-th function handed over
DeviationOf(r, n) ==
    df_test[r].y - ApplyScalar(chosen_ideal_functions[n], df_test[r].x).v

\* the rows of df_test the loop has filled in
Mapped == IF pc \in {"map_loop"} \cup PostMap THEN 1..row ELSE {}

\* C1: select returns exactly k pairwise distinct functions of the catalog, and no
\* candidate left out scores below a selected one
C1_SelectDistinctMinimal ==
    (pc \in PostSelect /\ num_functions <= Cardinality(CatalogIds)) =>
        /\ Len(chosen_ideal_functions) = num_functions
        /\ \A n \in 1..Len(chosen_ideal_functions) :
               /\ chosen_ideal_functions[n] # None
               /\ chosen_ideal_functions[n][1] \in CatalogIds
        /\ \A n, m \in 1..Len(chosen_ideal_functions) :
               n # m => chosen_ideal_functions[n] # chosen_ideal_functions[m]
        /\ \A c \in CatalogIds : \A n \in 1..Len(chosen_ideal_functions) :
               (\A m \in 1..Len(chosen_ideal_functions) : chosen_ideal_functions[m] # <<c>>)
                   => calculate_deviation(<<c>>).v
                          >= calculate_deviation(chosen_ideal_functions[n]).v

\* the threshold of the acceptance policy (the example value of the
\* specification)
max_allowed_deviation == 1

\* C2: a mapped test point whose least absolute deviation exceeds
\* max_allowed_deviation has no function and no deviation recorded
C2_ThresholdEnforced ==
    \A r \in Mapped :
        (\A n \in 1..Len(chosen_ideal_functions) :
             Abs(DeviationOf(r, n)) > max_allowed_deviation)
            => (df_test[r].IdealFunction = "" /\ df_test[r].Deviation = None)

\* C3: the deviation recorded for a mapped test point is the signed y - f(x) of a
\* function f handed over, and no function handed over is nearer in absolute
\* value; for the row mapped last, f is the one at min_deviation_idx
C3_SignedMinimalDeviation ==
    /\ \A r \in Mapped :
           \E n \in 1..Len(chosen_ideal_functions) :
               /\ df_test[r].Deviation = <<DeviationOf(r, n)>>
               /\ \A m \in 1..Len(chosen_ideal_functions) :
                      Abs(DeviationOf(r, n)) <= Abs(DeviationOf(r, m))
    /\ (Mapped # {}) =>
           /\ min_deviation_idx + 1 \in 1..Len(chosen_ideal_functions)
           /\ df_test[row].Deviation = <<DeviationOf(row, min_deviation_idx + 1)>>

\* a row is mapped to the second of two functions, with a negative deviation,
\* the first function being farther away
C3_Witness ==
    /\ pc = "persist"
    /\ row >= 1
    /\ Len(chosen_ideal_functions) = 2
    /\ min_deviation_idx = 1
    /\ df_test[row].Deviation # None
    /\ df_test[row].Deviation[1] < 0
    /\ Abs(DeviationOf(row, 1)) > Abs(DeviationOf(row, 2))

\* C4: the identifier recorded for a mapped test point names exactly one of the
\* functions handed over, the one whose deviation is recorded
C4_IdentifierNamesFunction ==
    \A r \in Mapped :
        \E n \in 1..Len(chosen_ideal_functions) :
            /\ \A m \in 1..Len(chosen_ideal_functions) :
                   LambdaName(chosen_ideal_functions[m]) = df_test[r].IdealFunction
                       <=> chosen_ideal_functions[m] = chosen_ideal_functions[n]
            /\ df_test[r].Deviation = <<DeviationOf(r, n)>>

\* C5: the deviation computed for a candidate is the sum over all training points
\* of (y - f(x))^2 with f evaluated at the point's own x
C5_ScoreIsPointwise ==
    (pc = "select_loop" /\ err = "none" /\ i >= 1 /\ TrainingOnGrid) =>
        \A j \in 1..Len(scored) : scored[j] = PointwiseScore(<<j - 1>>)

\* the columns a round scans that were not chosen before round r, and those of
\* least deviation among them
OpenIn(r) ==
    {c \in 0..(Len(scored) - 1) : \A m \in 1..(r - 1) : ideal_functions[m] # <<c>>}
BestIn(r) ==
    {c \in OpenIn(r) : \A o \in OpenIn(r) : scored[c + 1] <= scored[o + 1]}

\* C6: in every round, when several candidates not yet chosen share the least
\* deviation, the one of lowest index is chosen
C6_LowestIndexWinsTie ==
    (pc \in {"select_loop"} \cup PostSelect /\ err = "none") =>
        \A r \in 1..Len(ideal_functions) :
            Cardinality(BestIn(r)) >= 2 => ideal_functions[r] = <<MinOf(BestIn(r))>>

\* every training table has the rows of the catalog, on the x of the catalog
TrainingAligned ==
    \A n \in 1..Len(csv_files) :
        ApplySeries(<<0>>, ColumnX(ReadTable(TrainingEngine, TrainingTable(n)))).err = "none"

\* C7: with k above the number of reference functions select returns nothing, and
\* the error that ends it is InsufficientCandidatesError
C7_InsufficientCandidates ==
    (/\ pc \in {"select_loop"} \cup PostSelect
     /\ num_functions > Cardinality(CatalogIds)
     /\ TrainingAligned) =>
        /\ pc \notin PostSelect
        /\ err \in {"none", "InsufficientCandidatesError"}

\* C7, the second half alone: with k above the number of reference functions
\* select returns nothing
C7_NoResultAboveCount ==
    (pc \in PostSelect) => num_functions <= Cardinality(CatalogIds)

\* C8: map_to_ideal_functions never returns a table for an empty list of
\* functions
C8_EmptySelectionFails ==
    pc \in PostMap => chosen_ideal_functions # <<>>

\* C9: a completed round has scored exactly the columns of the reference
\* functions, and never the column x
C9_ScansCatalogOnly ==
    (pc = "select_loop" /\ err = "none" /\ i >= 1) =>
        {j - 1 : j \in 1..Len(scored)} = CatalogIds

\* C10: the script runs load, select, map, persist, render in this order: a table
\* is never read before it is saved to the same store, 'mapped_data' is written
\* once, after every test point is mapped and with the whole frame, and it is
\* rendered only after that write
C10_PipelineOrder ==
    /\ err # "TableNotFound"
    /\ writes <= 1
    /\ (writes = 1) <=> HasTable(TestEngine, MappedTable)
    /\ (writes = 1) <=> pc \in {"visualize", "done"}
    /\ pc \notin {"load_training"} =>
           \A n \in 1..Len(csv_files) : HasTable(TrainingEngine, TrainingTable(n))
    /\ pc \notin {"load_training", "load_ideal"} => HasTable(TrainingEngine, IdealTable)
    /\ pc \notin {"load_training", "load_ideal", "load_test"} =>
           HasTable(TestEngine, TestTable)
    /\ pc \in PostSelect =>
           /\ chosen_ideal_functions = ideal_functions
           /\ Len(ideal_functions) = num_functions
    /\ pc \notin PostSelect => (df_test = <<>> /\ row = 0)
    /\ pc \in PostMap =>
           /\ row = Len(df_test)
           /\ Len(df_test) = Len(ReadTable(TestEngine, TestTable))
           /\ \A r \in 1..Len(df_test) :
                  df_test[r].IdealFunction # "" /\ df_test[r].Deviation # None
           /\ mapped_data = <<df_test>>
    /\ pc \notin PostMap => mapped_data = None
    /\ HasTable(TestEngine, MappedTable) =>
           ReadTable(TestEngine, MappedTable) = df_test
    /\ (chart # None) <=> pc = "done"
    /\ chart # None =>
           /\ HasTable(TestEngine, MappedTable)
           /\ Len(chart[1]) = Len(df_test)

\* the run has ended with a table of mapped points written once and rendered
C10_Witness ==
    /\ pc = "done"
    /\ writes = 1
    /\ chart # None
    /\ Len(df_test) >= 1
    /\ Len(ideal_functions) >= 2

=============================================================================
